---- MODULE Spec2Model ----
(***************************************************************************)
(* Model of src_2d/core/model_2d_ddf_mvmm_label_base.py:                   *)
(* UnifiedMultiAtlasSegNet (graph construction: displacement fields,       *)
(* diffeomorphic integration, atlas warping, mixture fusion, loss) and     *)
(* Trainer (graph build of the optimizer and regularizers).                *)
(*                                                                         *)
(* Tensors are evaluated on one feed.  The image grid is one row of Width  *)
(* pixels, so a displacement has one component.  Displacements are fixed   *)
(* point numbers with Unit steps per pixel, probabilities are fixed point  *)
(* numbers with One standing for 1.0.                                      *)
(***************************************************************************)
EXTENDS Integers, Sequences, FiniteSets, TLC

VARIABLES cost_kwargs, net_kwargs, train_kwargs, data, netOut, env, net, trainer,
          run, pc, err

vars == <<cost_kwargs, net_kwargs, train_kwargs, data, netOut, env, net, trainer,
          run, pc, err>>

-----------------------------------------------------------------------------
(* Bounds of the model *)

Width == 2

NAtlas == 2

MaxIntSteps == 2

MaxIters == 2

MaxEpochs == 2

MaxPretrainEpochs == 2

MaxCalls == 2

(* Program constants *)

NClass == 2

DefaultIntSteps == 8

DefaultProbEps == 1

One == 100

Unit == 4 * (2 ^ MaxIntSteps)

Pix == 0 .. (Width - 1)

Atlas == 0 .. (NAtlas - 1)

Class == 0 .. (NClass - 1)

-----------------------------------------------------------------------------
(* Optional dictionary entries: <<>> is a missing key, <<v>> a key with value v *)

Absent == <<>>

Some(v) == <<v>>

Has(o) == Len(o) > 0

Get(o, default) == IF Len(o) > 0 THEN o[1] ELSE default

(* a key of the feed that carries a tensor *)
Fed(t) == DOMAIN t # {}

-----------------------------------------------------------------------------
(* Arithmetic helpers *)

Clamp(v, lo, hi) == IF v < lo THEN lo ELSE IF v > hi THEN hi ELSE v

Max2(a, b) == IF a >= b THEN a ELSE b

RECURSIVE SumRange(_, _, _)
SumRange(f(_), lo, hi) == IF lo > hi THEN 0 ELSE f(lo) + SumRange(f, lo + 1, hi)

RECURSIVE ProdRange(_, _, _)
ProdRange(f(_), lo, hi) == IF lo > hi THEN 1 ELSE f(lo) * ProdRange(f, lo + 1, hi)

(* a tensor is a value computed once, not a formula recomputed at every use *)
tensor(t) == IF t = t THEN t ELSE t

OneHot(k) == [c \in Class |-> IF c = k THEN One ELSE 0]

-----------------------------------------------------------------------------
(* External collaborators, modelled from their contracts *)

(* SpatialTransformer (core.networks_2d): sample src at x + disp[x], with   *)
(* linear or nearest interpolation, positions clipped to the grid.          *)
interp_linear(src, p) ==
    LET q == Clamp(p, 0, (Width - 1) * Unit)
        i == q \div Unit
        f == q % Unit
        j == Clamp(i + 1, 0, Width - 1)
    IN  (src[i] * (Unit - f) + src[j] * f) \div Unit

interp_nearest(src, p) ==
    src[Clamp((p + (Unit \div 2)) \div Unit, 0, Width - 1)]

resample(interp_method, src, disp) ==
    tensor([x \in Pix |-> IF interp_method = "nearest"
                          THEN interp_nearest(src, x * Unit + disp[x])
                          ELSE interp_linear(src, x * Unit + disp[x])])

(* a tensor with a trailing channel axis is resampled channel by channel *)
SpatialTransformer(interp_method, src, disp) ==
    LET chan == tensor([c \in DOMAIN src[0] |->
                            resample(interp_method, [x \in Pix |-> src[x][c]], disp)])
    IN  tensor([x \in Pix |-> [c \in DOMAIN src[0] |-> chan[c][x]]])

(* utils_2d.integrate_vec: nb_steps self-compositions of the scaled field *)
RECURSIVE integrate_vec(_, _)
integrate_vec(vec, nb_steps) ==
    IF nb_steps <= 0 THEN vec
    ELSE LET moved == resample("linear", vec, vec)
         IN  integrate_vec(tensor([x \in Pix |-> vec[x] + moved[x]]), nb_steps - 1)

(* renormalisation over the class axis, rounded to the nearest multiple of *)
(* 1/One; an all-zero pixel is resolved to the uniform distribution         *)
renormalise(p) ==
    tensor([x \in Pix |->
        LET s == SumRange(LAMBDA c : p[x][c], 0, NClass - 1)
        IN  [c \in Class |-> IF s = 0 THEN One \div NClass
                             ELSE (2 * p[x][c] * One + s) \div (2 * s)]])

(* utils_2d.get_prob_from_label: smooth each class channel with a          *)
(* normalised kernel of width sigma, clip below at eps, renormalise.       *)
smooth(label, sigma) ==
    tensor([x \in Pix |-> [c \in Class |->
        SumRange(LAMBDA j : label[Clamp(x + j, 0, Width - 1)][c], 0 - sigma, sigma)
            \div (2 * sigma + 1)]])

(* smoothed and clipped, the renormalisation left out *)
get_prob_from_label_unnormalised(label, sigma, eps) ==
    LET sm == smooth(label, sigma)
    IN  tensor([x \in Pix |-> [c \in Class |-> Max2(sm[x][c], eps)]])

get_prob_from_label(label, sigma, eps) ==
    LET sm == smooth(label, sigma)
    IN  renormalise(tensor([x \in Pix |-> [c \in Class |-> Max2(sm[x][c], eps)]]))

(* utils_2d.get_joint_prob: per class product over the atlas axis,          *)
(* renormalised over classes.                                               *)
get_joint_prob(prob) ==
    renormalise(tensor([x \in Pix |-> [c \in Class |->
        ProdRange(LAMBDA n : prob[n][x][c], 0, NAtlas - 1)]]))

(* utils_2d.get_segmentation: the arg-max class of each pixel, one-hot *)
get_segmentation(prob) ==
    [x \in Pix |->
        LET best == CHOOSE k \in Class :
                        /\ \A c \in Class : prob[x][k] >= prob[x][c]
                        /\ \A c \in Class : (c < k) => (prob[x][c] < prob[x][k])
        IN  [c \in Class |-> IF c = best THEN 1 ELSE 0]]

(* random_affine_augment (core.networks_2d): the affine map drawn for this   *)
(* feed is a translation by data.aug_shift                                    *)
random_affine_augment(input, interp_method, shift) ==
    SpatialTransformer(interp_method, input, [x \in Pix |-> shift])

-----------------------------------------------------------------------------
(* Names the configuration may carry *)

SupportedCosts ==
    {"label_consistency", "multi_scale_label_consistency", "dice", "multi_scale_dice",
     "cross_entropy", "SSD", "LNCC", "L2_norm",
     "mvmm_net_gmm", "mvmm_net_ncc", "mvmm_net_lecc", "mvmm_net_mask"}

NotImplementedCosts == {"mvmm", "mvmm_mas", "KL_divergence"}

UnknownCosts == {"Dice_loss", "multi_scale_SSD"}

CostNames == SupportedCosts \cup NotImplementedCosts \cup UnknownCosts \cup {"None"}

(* 'multi_scale' in cost_name *)
has_multi_scale(name) ==
    name \in {"multi_scale_label_consistency", "multi_scale_dice", "multi_scale_SSD"}

Methods == {"ddf_label", "ddf_score", "ddf_affine"}

SupportedOptimizers == {"momentum", "sgd", "rmsprop", "adam", "adam-clr"}

OptimizerNames == SupportedOptimizers \cup {"radam", "adabound", "adagrad"}

RegularizerFirst == {"l1", "l2", "None", "l3"}

RegularizerSecond == {"bending_energy", "None", "membrane_energy"}

-----------------------------------------------------------------------------
(* UnifiedMultiAtlasSegNet *)

(* lines 64-65 *)
prob_sigma_of(ck) ==
    IF has_multi_scale(ck.cost_name)
    THEN Get(ck.prob_sigma, <<1, 2, 4, 8>>)
    ELSE Get(ck.prob_sigma, <<1>>)

(* line 66 *)
prob_eps_of(ck) == Get(ck.prob_eps, DefaultProbEps)

(* the atlas labels augmented with the target, as in the lines commented    *)
(* out at 224-226                                                            *)
_get_augmented_data_with_atlases(d) ==
    IF d.train_phase
    THEN [d EXCEPT !.target_label =
                       random_affine_augment(d.target_label, "nearest", d.aug_shift),
                   !.target_weight =
                       random_affine_augment(d.target_weight, "linear", d.aug_shift),
                   !.atlases_label =
                       [n \in Atlas |->
                           random_affine_augment(d.atlases_label[n], "nearest",
                                                 d.aug_shift)]]
    ELSE d

(* _get_augmented_data: tf.cond(train_phase, true_fn, lambda: self.data) *)
_get_augmented_data(d) ==
    IF d.train_phase
    THEN [d EXCEPT !.target_label =
                       random_affine_augment(d.target_label, "nearest", d.aug_shift),
                   !.target_weight =
                       random_affine_augment(d.target_weight, "linear", d.aug_shift)]
    ELSE d

(* the velocity divided by 2^int_steps a second time *)
scale_velocity_twice(ddf, int_steps) ==
    tensor([n \in Atlas |-> [x \in Pix |->
        (ddf[n][x] \div (2 ^ int_steps)) \div (2 ^ int_steps)]])

(* the velocity halved once more than int_steps says *)
scale_velocity_off_by_one(ddf, int_steps) ==
    tensor([n \in Atlas |-> [x \in Pix |-> ddf[n][x] \div (2 ^ (int_steps + 1))]])

(* line 137 *)
scale_velocity(ddf, int_steps) ==
    tensor([n \in Atlas |-> [x \in Pix |-> ddf[n][x] \div (2 ^ int_steps)]])

(* the integration applied whatever the diffeomorphism option says *)
integrate_ddf_always(ddf, nk) ==
    LET int_steps == Get(nk.int_steps, DefaultIntSteps)
        vec == scale_velocity(ddf, int_steps)
    IN  tensor([n \in Atlas |-> integrate_vec(vec[n], int_steps)])

(* lines 135-138; the field of every atlas is integrated *)
integrate_ddf(ddf, nk) ==
    IF Get(nk.diffeomorphism, FALSE)
    THEN LET int_steps == Get(nk.int_steps, DefaultIntSteps)
             vec == scale_velocity(ddf, int_steps)
         IN  tensor([n \in Atlas |-> integrate_vec(vec[n], int_steps)])
    ELSE ddf

(* the floor forgotten: eps = 0 handed to the probability mapping *)
_get_warped_atlases_prob_no_floor(atlases_label, ddf, interp_method, sigmas, eps) ==
    tensor([idx \in 1 .. Len(sigmas) |->
        [n \in Atlas |->
            SpatialTransformer(interp_method,
                               get_prob_from_label(atlases_label[n], sigmas[idx], 0),
                               ddf[n])]])

(* every scale computed with the first sigma *)
_get_warped_atlases_prob_one_sigma(atlases_label, ddf, interp_method, sigmas, eps) ==
    tensor([idx \in 1 .. Len(sigmas) |->
        [n \in Atlas |->
            SpatialTransformer(interp_method,
                               get_prob_from_label(atlases_label[n], sigmas[1], eps),
                               ddf[n])]])

_get_warped_atlases_prob(atlases_label, ddf, interp_method, sigmas, eps) ==
    tensor([idx \in 1 .. Len(sigmas) |->
        [n \in Atlas |->
            SpatialTransformer(interp_method,
                               get_prob_from_label(atlases_label[n], sigmas[idx], eps),
                               ddf[n])]])

(* the atlases resampled by the fields in reverse order *)
_get_warped_atlases_reversed(atlases, ddf, interp_method) ==
    tensor([i \in Atlas |->
        SpatialTransformer(interp_method, atlases[i], ddf[NAtlas - 1 - i])])

_get_warped_atlases(atlases, ddf, interp_method) ==
    tensor([i \in Atlas |-> SpatialTransformer(interp_method, atlases[i], ddf[i])])

(* the last atlas alone decides the joint map *)
atlases_joint_prob_last_atlas(warped_atlases_prob) ==
    [i \in 1 .. Len(warped_atlases_prob) |->
        renormalise(warped_atlases_prob[i][NAtlas - 1])]

(* the first atlas alone decides the joint map *)
atlases_joint_prob_first_atlas(warped_atlases_prob) ==
    [i \in 1 .. Len(warped_atlases_prob) |-> renormalise(warped_atlases_prob[i][0])]

(* line 156 *)
atlases_joint_prob_of(warped_atlases_prob) ==
    [i \in 1 .. Len(warped_atlases_prob) |-> get_joint_prob(warped_atlases_prob[i])]

(* warped_atlases_prob[idx] * warped_atlases_weight, elementwise *)
reweighted(warped_atlases_prob, warped_atlases_weight, idx) ==
    tensor([n \in Atlas |-> [x \in Pix |-> [c \in Class |->
        warped_atlases_prob[idx][n][x][c] * warped_atlases_weight[n][x][c]]]])

(* the coarsest scale segmented instead of the finest *)
segmenter_of_coarsest(warped_atlases_prob, warped_atlases_weight) ==
    get_segmentation(get_joint_prob(
        reweighted(warped_atlases_prob, warped_atlases_weight,
                   Len(warped_atlases_prob))))

(* lines 162-166 *)
segmenter_of(warped_atlases_prob, warped_atlases_weight) ==
    get_segmentation(get_joint_prob(
        reweighted(warped_atlases_prob, warped_atlases_weight, 1)))

(* tf.reduce_mean(self.ddf ** 2) *)
mean_square(ddf) ==
    SumRange(LAMBDA n : SumRange(LAMBDA x : ddf[n][x] * ddf[n][x], 0, Width - 1),
             0, NAtlas - 1) \div (NAtlas * Width)

_get_pretrain_cost(ddf) == mean_square(ddf)

(* _get_cost, lines 251-324: the loss variant selected by cost_name; only   *)
(* the variants that read self.ddf directly carry a value here               *)
cost_variant(cost_name, ddf) ==
    [name |-> cost_name,
     value |-> IF cost_name = "L2_norm" THEN mean_square(ddf) ELSE 0]

(* the regularizer type not looked at *)
regularization_term_any_type(regularizer_type, regularization_coefficient) ==
    IF Has(regularization_coefficient) THEN regularization_coefficient[1][1] ELSE 0

(* _get_cost, lines 344-346: the weight of the network's regularization_loss *)
regularization_term(regularizer_type, regularization_coefficient) ==
    IF regularizer_type[1] \in {"l2", "l1"} /\ regularization_coefficient[1][1] # 0
    THEN regularization_coefficient[1][1]
    ELSE 0

(* _get_cost, lines 326-342: what self.scores_gt and self.scores_loss are   *)
scores_gt_of(method) ==
    IF method = "ddf_score" THEN "jaccard + cross_entropy ** 0.3" ELSE "constant 0"

scores_loss_of(method) ==
    IF method = "ddf_score" THEN "mean(abs(scores - scores_gt))" ELSE "constant 0"

(* the score term left out in every mode *)
scores_term_never(method) == 0

(* _get_cost, lines 326-342: the weight of scores_loss in the loss *)
scores_term(method) == IF method = "ddf_score" THEN 1 ELSE 0

(* _get_cost: the loss as the sum of its terms *)
_get_cost(cost_name, method, regularizer_type, regularization_coefficient, ddf) ==
    [variant |-> cost_variant(cost_name, ddf),
     scores  |-> scores_term(method),
     reg     |-> regularization_term(regularizer_type, regularization_coefficient),
     bending |-> 0]

(* a final else that falls through instead of raising *)
cost_name_error_lenient(cost_name) ==
    IF cost_name = "mvmm" THEN <<"NotImplementedError", 253>>
    ELSE IF cost_name = "mvmm_mas" THEN <<"NotImplementedError", 256>>
    ELSE IF cost_name = "KL_divergence" THEN <<"NotImplementedError", 295>>
    ELSE <<"none", 0>>

(* _get_cost, lines 252-324: the if/elif chain over cost_name *)
cost_name_error(cost_name) ==
    IF cost_name = "mvmm" THEN <<"NotImplementedError", 253>>
    ELSE IF cost_name = "mvmm_mas" THEN <<"NotImplementedError", 256>>
    ELSE IF cost_name = "KL_divergence" THEN <<"NotImplementedError", 295>>
    ELSE IF cost_name \notin SupportedCosts THEN <<"NotImplementedError", 324>>
    ELSE <<"none", 0>>

(* create_ddf_label_net / create_ddf_score_net (core.networks_2d) are given  *)
(* regularizer=regularizer_type[0]; whether they reject a name they do not   *)
(* know is not visible from here, so both outcomes are kept                  *)
network_outcomes(ck) ==
    IF Has(ck.regularizer) /\ ck.regularizer[1][1] \notin {"l1", "l2", "None"}
    THEN {"builds", "raises"}
    ELSE {"builds"}

(* the first statement of __init__ that raises, as <<exception, line>> *)
construct_error(ck, nk, network) ==
    IF ck.cost_name = "None" THEN <<"TypeError", 65>>
    ELSE IF ~Has(ck.regularizer) THEN <<"TypeError", 71>>
    ELSE IF nk.method \notin {"ddf_label", "ddf_score"} THEN <<"ValueError", 132>>
    ELSE IF network = "raises" THEN <<"ValueError", 113>>
    ELSE IF ~Has(nk.diffeomorphism) THEN <<"KeyError", 135>>
    ELSE IF cost_name_error(ck.cost_name)[1] # "none" THEN cost_name_error(ck.cost_name)
    ELSE IF /\ ck.regularizer[1][1] \in {"l2", "l1"}
            /\ ~Has(ck.regularization_coefficient) THEN <<"TypeError", 345>>
    ELSE <<"none", 0>>

(* attribute values of a net that does not exist (yet) *)
ZeroField == [n \in Atlas |-> [x \in Pix |-> 0]]

NoCost == [variant |-> [name |-> "None", value |-> 0], scores |-> 0, reg |-> 0, bending |-> 0]

NoNet ==
    [attrs |-> {}, augmented_data |-> <<>>,
     cost_name |-> "None", prob_sigma |-> <<>>, prob_eps |-> 0,
     regularizer_type |-> <<>>, regularization_coefficient |-> <<>>,
     int_steps |-> 0, vec |-> ZeroField, ddf |-> ZeroField,
     target_prob |-> <<>>, warped_atlases_prob |-> <<>>, warped_atlases_weight |-> <<>>,
     warped_atlases_image |-> <<>>, atlases_joint_prob |-> <<>>,
     cost |-> NoCost, scores_loss |-> "None", scores_gt |-> "None",
     pretrain_cost |-> 0, segmenter |-> <<>>, global_step |-> 0,
     bending_energy |-> 0, bending_energy_weight |-> 0, num_neg_jacob |-> 0,
     bending_schedule |-> [base |-> 0, rate |-> 0, decay_steps |-> 0]]

NoTrainer == [optimizer_name |-> "None", train_op |-> FALSE, pretrain_op |-> FALSE]

(* the attributes __init__ always sets *)
BaseAttrs ==
    {"cost_name", "prob_sigma", "prob_eps", "regularizer_type", "net_regularizer",
     "regularization_coefficient", "pi", "data", "augmented_data", "ddf",
     "regularization_loss", "target_prob", "warped_atlases_prob",
     "warped_atlases_weight", "atlases_joint_prob", "scores_loss", "scores_gt",
     "cost", "pretrain_cost", "segmenter", "global_step", "gradients_node",
     "average_dice", "myocardial_dice", "jaccard", "ddfs_norm"}

(* UnifiedMultiAtlasSegNet.__init__ run to its end, every tensor of the     *)
(* graph given the value it takes on the current feed; a tensor computed     *)
(* from a placeholder the feed does not carry has none                       *)
constructed_net(ck, nk, d, network_ddf) ==
    LET aug == _get_augmented_data(d)
        sigmas == prob_sigma_of(ck)
        eps == prob_eps_of(ck)
        diffeo == Get(nk.diffeomorphism, FALSE)
        int_steps == Get(nk.int_steps, DefaultIntSteps)
        ddf == integrate_ddf(network_ddf, nk)
        warped_prob == _get_warped_atlases_prob(aug.atlases_label, ddf, "linear", sigmas, eps)
        warped_weight == IF Fed(aug.atlases_weight)
                         THEN _get_warped_atlases(aug.atlases_weight, ddf, "linear")
                         ELSE Absent
    IN  [attrs |-> BaseAttrs
                     \cup (IF diffeo THEN {"int_steps", "vec"} ELSE {})
                     \cup (IF nk.method = "ddf_score" THEN {"scores"} ELSE {}),
         augmented_data |-> aug,
         cost_name |-> ck.cost_name,
         prob_sigma |-> sigmas,
         prob_eps |-> eps,
         regularizer_type |-> ck.regularizer[1],
         regularization_coefficient |-> ck.regularization_coefficient,
         int_steps |-> IF diffeo THEN int_steps ELSE 0,
         vec |-> IF diffeo THEN scale_velocity(network_ddf, int_steps) ELSE ZeroField,
         ddf |-> ddf,
         target_prob |-> get_prob_from_label(aug.target_label, sigmas[1], eps),
         warped_atlases_prob |-> warped_prob,
         warped_atlases_weight |-> warped_weight,
         warped_atlases_image |->
             IF ck.cost_name = "LNCC"
             THEN _get_warped_atlases(aug.atlases_image, ddf, "linear")
             ELSE <<>>,
         atlases_joint_prob |-> atlases_joint_prob_of(warped_prob),
         cost |-> _get_cost(ck.cost_name, nk.method, ck.regularizer[1],
                            ck.regularization_coefficient, ddf),
         scores_loss |-> scores_loss_of(nk.method),
         scores_gt |-> scores_gt_of(nk.method),
         pretrain_cost |-> _get_pretrain_cost(ddf),
         segmenter |-> IF Fed(aug.atlases_weight)
                       THEN segmenter_of(warped_prob, warped_weight)
                       ELSE Absent,
         global_step |-> 0,
         bending_energy |-> 0,
         bending_energy_weight |-> 0,
         num_neg_jacob |-> 0,
         bending_schedule |-> NoNet.bending_schedule]

(* what __init__ has removed from the caller's dictionaries when it stops    *)
(* at `line` (0: it ran to its end): lines 81 and 136                        *)
cost_kwargs_after(ck, line) ==
    IF line = 0 \/ line > 81 THEN [ck EXCEPT !.prior_prob = Absent] ELSE ck

net_kwargs_after(nk, line) ==
    IF (line = 0 \/ line > 136) /\ Get(nk.diffeomorphism, FALSE)
    THEN [nk EXCEPT !.int_steps = Absent]
    ELSE nk

(* net = UnifiedMultiAtlasSegNet(cost_kwargs=..., **net_kwargs) *)
Construct ==
    /\ pc = "config"
    /\ \E network \in network_outcomes(cost_kwargs) :
         LET e == construct_error(cost_kwargs, net_kwargs, network)
         IN  /\ cost_kwargs' = cost_kwargs_after(cost_kwargs, e[2])
             /\ net_kwargs' = net_kwargs_after(net_kwargs, e[2])
             /\ err' = e
             /\ IF e[1] = "none"
                THEN /\ net' = constructed_net(cost_kwargs, net_kwargs, data, netOut)
                     /\ pc' = "built"
                ELSE /\ net' = net
                     /\ pc' = "failed"
    /\ UNCHANGED <<env, train_kwargs, data, netOut, trainer, run>>

-----------------------------------------------------------------------------
(* Trainer *)

(* LocalDisplacementEnergy(energy_type='bending').compute_displacement_energy *)
(* (core.losses_2d): weighted mean square of the second spatial difference    *)
compute_displacement_energy(ddf_i, weight) ==
    LET d2(x) == ddf_i[Clamp(x - 1, 0, Width - 1)] - 2 * ddf_i[x]
                     + ddf_i[Clamp(x + 1, 0, Width - 1)]
    IN  weight * (SumRange(LAMBDA x : d2(x) * d2(x), 0, Width - 1) \div Width)

(* LocalDisplacementEnergy.compute_jacobian_determinant (core.losses_2d):    *)
(* the local volume change of x + ddf_i(x), one value per pixel               *)
compute_jacobian_determinant(ddf_i) ==
    [x \in Pix |-> Unit + ddf_i[Clamp(x + 1, 0, Width - 1)] - ddf_i[x]]

(* lines 651-654: tf.reduce_mean of the list of the atlases' determinant     *)
(* fields, without an axis, is one scalar; less_equal and count_nonzero of a  *)
(* scalar give 1 or 0. The mean is non-positive exactly when the sum is       *)
num_neg_jacob_of(ddf) ==
    LET total == SumRange(LAMBDA i :
                     SumRange(LAMBDA x : compute_jacobian_determinant(ddf[i])[x],
                              0, Width - 1),
                     0, NAtlas - 1)
    IN  IF total <= 0 THEN 1 ELSE 0

(* trainer = Trainer(net, optimizer_name=...) *)
NewTrainer ==
    /\ pc = "built"
    /\ trainer' = [NoTrainer EXCEPT !.optimizer_name = train_kwargs.optimizer_name]
    /\ pc' = "trainer"
    /\ UNCHANGED <<env, cost_kwargs, net_kwargs, train_kwargs, data, netOut, net, run, err>>

(* every optimizer name is taken for a supported one *)
optimizer_error_lenient(optimizer_name) == <<"none", 0>>

(* _get_optimizer, lines 533-591: the branch taken for optimizer_name *)
optimizer_error(optimizer_name) ==
    IF optimizer_name \in SupportedOptimizers THEN <<"none", 0>>
    ELSE IF optimizer_name = "radam" THEN <<"NotImplementedError", 585>>
    ELSE IF optimizer_name = "adabound" THEN <<"NotImplementedError", 588>>
    ELSE <<"ValueError", 591>>

(* the name compared with is misspelt *)
wants_bending_energy_misspelt(regularizer_type) == regularizer_type[2] = "bending"

(* _initialize, lines 636-655: is the bending energy requested *)
wants_bending_energy(regularizer_type) == regularizer_type[2] = "bending_energy"

(* the first statement of _initialize that raises *)
initialize_error(n, ck, t) ==
    IF wants_bending_energy(n.regularizer_type)
       /\ ~Has(ck.bending_energy_increment_rate) THEN <<"KeyError", 638>>
    ELSE IF wants_bending_energy(n.regularizer_type)
       /\ ~Has(n.regularization_coefficient) THEN <<"TypeError", 639>>
    ELSE optimizer_error(t.optimizer_name)

(* the weight kept at its base value whatever the step *)
bending_energy_weight_constant(base, rate, decay_steps, global_step) == base

(* lines 639-643: tf.train.exponential_decay(base, global_step, decay_steps, *)
(* rate, staircase=True); with staircase the exponent is the integer         *)
(* division global_step // decay_steps                                       *)
bending_energy_weight(base, rate, decay_steps, global_step) ==
    base * (rate ^ (global_step \div decay_steps))

(* lines 644-647: the mean over the atlases of the weighted energies *)
bending_energy_of(ddf, weight) ==
    SumRange(LAMBDA i : compute_displacement_energy(ddf[i], weight), 0, NAtlas - 1)
        \div NAtlas

(* the bending energy of the net at its current global_step *)
bending_energy_at(n) ==
    LET w == bending_energy_weight(n.bending_schedule.base, n.bending_schedule.rate,
                                   n.bending_schedule.decay_steps, n.global_step)
    IN  [n EXCEPT !.bending_energy_weight = w,
                  !.bending_energy = bending_energy_of(n.ddf, w)]

(* lines 638-655: the bending energy joins the cost, the diagnostics the net *)
add_bending_energy(n, rate, decay_steps) ==
    bending_energy_at(
        [n EXCEPT !.attrs = @ \cup {"bending_energy", "num_neg_jacob"},
                  !.num_neg_jacob = num_neg_jacob_of(n.ddf),
                  !.bending_schedule = [base |-> n.regularization_coefficient[1][2],
                                        rate |-> rate, decay_steps |-> decay_steps],
                  !.cost = [@ EXCEPT !.bending = @ + 1]])

(* the directory left as it is found *)
directory_after_untouched(dir, restore) == dir

(* lines 686-701 on one of the two directories: removed unless restore,    *)
(* then created when it does not exist                                      *)
directory_after(dir, restore) == IF ~restore \/ dir = "absent" THEN "new" ELSE dir

(* lines 688-692: what shutil.rmtree leaves of the checkpoint state kept in *)
(* save_model_path                                                           *)
checkpoint_after(state, restore) == IF restore THEN state ELSE "none"

(* line 751, sess.run(init): every global variable takes its initial value, *)
(* global_step (line 174) among them                                         *)
session_initialized(n) ==
    IF "bending_energy" \in n.attrs
    THEN bending_energy_at([n EXCEPT !.global_step = 0])
    ELSE [n EXCEPT !.global_step = 0]

(* the rate read and left in cost_kwargs *)
cost_kwargs_after_initialize_kept(ck, bending, e) == ck

(* line 638: pop('bending_energy_increment_rate') *)
cost_kwargs_after_initialize(ck, bending, e) ==
    IF bending /\ e # <<"KeyError", 638>>
    THEN [ck EXCEPT !.bending_energy_increment_rate = Absent]
    ELSE ck

(* train(), lines 728-751: Trainer._initialize, the graph build that opens  *)
(* train(), and the initialisation of the session's variables                *)
Initialize ==
    /\ pc = "trainer"
    /\ LET e == initialize_error(net, cost_kwargs, trainer)
           bending == wants_bending_energy(net.regularizer_type)
           with_energy == IF bending /\ e \notin {<<"KeyError", 638>>, <<"TypeError", 639>>}
                          THEN add_bending_energy(net,
                                                  cost_kwargs.bending_energy_increment_rate[1],
                                                  train_kwargs.training_iters)
                          ELSE net
       IN  /\ err' = e
           /\ cost_kwargs' = cost_kwargs_after_initialize(cost_kwargs, bending, e)
           /\ IF e[1] = "none"
              THEN /\ net' = session_initialized(with_energy)
                   /\ trainer' = [trainer EXCEPT
                                     !.train_op = TRUE,
                                     !.pretrain_op = (train_kwargs.pretrain_epochs # 0)]
                   /\ env' = [env EXCEPT
                                 !.prediction_path =
                                     directory_after(@, train_kwargs.restore),
                                 !.save_model_path =
                                     directory_after(@, train_kwargs.restore),
                                 !.save_ckpt = checkpoint_after(@, train_kwargs.restore)]
                   /\ pc' = "initialized"
              ELSE /\ net' = with_energy
                   /\ trainer' = trainer
                   /\ env' = env
                   /\ pc' = "failed"
    /\ UNCHANGED <<net_kwargs, train_kwargs, data, netOut, run>>

(* train(), lines 752-887, one session step at a time.  The arguments left  *)
(* at their defaults: self_iters=1, display_step=1, validation_step=None,   *)
(* latest_filename=None, no pretrain_steps.                                 *)

(* the locals of one call of train(): counters, the metric dictionaries     *)
(* (test_metrics as <<key, Dice>> pairs, train_metrics as keys), total_loss, *)
(* the files written, the value returned; with them the origin of the       *)
(* parameters the session holds, the Dice of the parameters last saved as   *)
(* best model, the loss of every step and the figures every                  *)
(* output_epoch_stats was given, and the session runs so far, each with the  *)
(* origin of the parameters it started from                                  *)
NoRun == [pretrain_step |-> 0, epoch |-> 0, step |-> 0, train_steps |-> 0,
          checkpoints |-> {}, params |-> "initial", events |-> <<>>,
          test_metrics |-> <<>>, train_metrics |-> <<>>, best_dice |-> <<>>,
          total_loss |-> 0, losses |-> <<>>, reports |-> <<>>, returned |-> <<>>,
          calls |-> 1]

event(r, name) == Append(r.events, <<name, r.params>>)

(* lines 757-759 *)
pretrain_steps_of(tk) == tk.pretrain_epochs * tk.training_iters

(* lines 763-776: one pass over the loader, left at the first step that is  *)
(* not below pretrain_steps                                                  *)
pretrain_continues(tk, step) == step < tk.training_iters /\ step < pretrain_steps_of(tk)

(* sess.run((self.pretrain_op, ...)), lines 765-770 *)
PretrainStep ==
    /\ pc \in {"initialized", "pretrain"}
    /\ train_kwargs.pretrain_epochs # 0
    /\ pretrain_continues(train_kwargs, run.pretrain_step)
    /\ trainer.pretrain_op
    /\ run' = [run EXCEPT !.pretrain_step = @ + 1,
                          !.params = "pretrained",
                          !.events = event(run, "pretrain")]
    /\ pc' = "pretrain"
    /\ UNCHANGED <<env, cost_kwargs, net_kwargs, train_kwargs, data, netOut, net, trainer, err>>

(* lines 778-785: the pre-trained model is saved *)
PretrainEnd ==
    /\ pc \in {"initialized", "pretrain"}
    /\ train_kwargs.pretrain_epochs # 0
    /\ ~pretrain_continues(train_kwargs, run.pretrain_step)
    /\ run' = [run EXCEPT !.checkpoints = @ \cup {"pretrain_model.ckpt"},
                          !.events = event(run, "save_pretrain")]
    /\ pc' = "restore"
    /\ UNCHANGED <<env, cost_kwargs, net_kwargs, train_kwargs, data, netOut, net, trainer, err>>

(* line 756: no pre-training asked for *)
PretrainSkip ==
    /\ pc = "initialized"
    /\ train_kwargs.pretrain_epochs = 0
    /\ pc' = "restore"
    /\ UNCHANGED <<env, cost_kwargs, net_kwargs, train_kwargs, data, netOut, net, trainer, run,
                   err>>

(* line 788: restore is not set *)
RestoreSkip ==
    /\ pc = "restore"
    /\ ~train_kwargs.restore
    /\ pc' = "restored"
    /\ UNCHANGED <<env, cost_kwargs, net_kwargs, train_kwargs, data, netOut, net, trainer, run,
                   err>>

(* `ckpt and ckpt.model_checkpoint_path`, lines 797 and 803 *)
usable(ckpt) == ckpt = "model"

(* lines 790-807: where the parameters are restored from, or the error.     *)
(* Line 793 passes var_list to Saver.restore(sess, save_path), which takes  *)
(* no such argument.  Line 807 evaluates                                     *)
(* "Unknown previous model path: " % ckpt.model_checkpoint_path before       *)
(* ValueError is called: with ckpt None the attribute access fails, with an  *)
(* empty path the format string has no place for the argument               *)
restore_outcome(tk, e) ==
    IF tk.restore_model_path = "model.ckpt" THEN <<"TypeError", 793>>
    ELSE IF usable(e.restore_ckpt) THEN <<"restore_model_path", 799>>
    ELSE IF usable(e.save_ckpt) THEN <<"save_model_path", 805>>
    ELSE IF e.save_ckpt = "none" THEN <<"AttributeError", 807>>
    ELSE <<"TypeError", 807>>

(* the checkpoint read and the session's parameters left as they were *)
restored_without_effect(r, from) == [r EXCEPT !.events = event(r, from)]

(* lines 799 and 805, net.restore: the session's parameters become those of *)
(* the checkpoint                                                            *)
restored(r, from) == [r EXCEPT !.params = "restored", !.events = event(r, from)]

(* lines 788-807 *)
Restore ==
    /\ pc = "restore"
    /\ train_kwargs.restore
    /\ LET o == restore_outcome(train_kwargs, env)
       IN  IF o[1] \in {"restore_model_path", "save_model_path"}
           THEN /\ run' = restored(run, o[1])
                /\ pc' = "restored"
                /\ err' = err
           ELSE /\ run' = run
                /\ pc' = "failed"
                /\ err' = o
    /\ UNCHANGED <<env, cost_kwargs, net_kwargs, train_kwargs, data, netOut, net, trainer>>

(* what train() returns, lines 819 and 887 *)
returned_of(r) ==
    Some([save_path |-> "best_model.ckpt", train_metrics |-> r.train_metrics,
          test_metrics |-> r.test_metrics])

(* lines 809-819: the metric dictionaries are created and train() returns   *)
(* at once when epochs == 0                                                   *)
StartOptimization ==
    /\ pc = "restored"
    /\ IF train_kwargs.epochs = 0
       THEN /\ run' = [run EXCEPT !.returned = returned_of(run)]
            /\ pc' = "returned"
       ELSE /\ run' = run
            /\ pc' = "batch"
    /\ UNCHANGED <<env, cost_kwargs, net_kwargs, train_kwargs, data, netOut, net, trainer,
                   err>>

(* the attributes store_prediction and output_minibatch_stats read *)
MetricAttrs ==
    {"cost", "average_dice", "jaccard", "myocardial_dice", "ddfs_norm", "bending_energy",
     "num_neg_jacob", "scores_loss", "segmenter", "ddf"}

(* validation_step = training_iters, line 740 *)
validation_due(tk, step) == step % tk.training_iters = 0

(* np.max(list(test_metrics['Dice'].values())), line 842 *)
max_dice(test_metrics) ==
    CHOOSE d \in {test_metrics[i][2] : i \in 1 .. Len(test_metrics)} :
        \A i \in 1 .. Len(test_metrics) : test_metrics[i][2] <= d

(* line 842: is the current model saved as the best one *)
saves_best(r, dice) ==
    (r.step > 0 \/ r.epoch > 0) /\ dice >= max_dice(r.test_metrics)

(* lines 837-852: store_prediction, the best model saved and the metrics    *)
(* recorded under the key epoch * training_iters + step                      *)
Validate ==
    /\ pc = "batch"
    /\ run.step < train_kwargs.training_iters
    /\ validation_due(train_kwargs, run.step)
    /\ IF ~(MetricAttrs \subseteq net.attrs)
       THEN /\ run' = run
            /\ pc' = "failed"
            /\ err' = <<"AttributeError", 923>>
       ELSE IF ~Fed(data.atlases_weight)
       THEN /\ run' = run
            /\ pc' = "failed"
            /\ err' = <<"KeyError", 930>>
       ELSE /\ LET dice == env.measured_dice[run.epoch]
                   best == saves_best(run, dice)
               IN  run' = [run EXCEPT
                              !.checkpoints = IF best THEN @ \cup {"best_model.ckpt"}
                                              ELSE @,
                              !.best_dice = IF best THEN Some(dice) ELSE @,
                              !.test_metrics =
                                  Append(@, <<run.epoch * train_kwargs.training_iters
                                                  + run.step, dice>>),
                              !.events = event(run, "validate")]
            /\ pc' = "optimize"
            /\ err' = err
    /\ UNCHANGED <<env, cost_kwargs, net_kwargs, train_kwargs, data, netOut, net, trainer>>

(* line 837: no validation at this step *)
ValidateSkip ==
    /\ pc = "batch"
    /\ run.step < train_kwargs.training_iters
    /\ ~validation_due(train_kwargs, run.step)
    /\ pc' = "optimize"
    /\ UNCHANGED <<env, cost_kwargs, net_kwargs, train_kwargs, data, netOut, net, trainer, run,
                   err>>

(* the optimizer leaving global_step alone *)
train_op_without_step(n) == n

(* train_op, lines 598-606: minimize / apply_gradients with                 *)
(* global_step=self.net.global_step increments it, and with it moves every  *)
(* tensor computed from it                                                   *)
train_op(n) ==
    LET stepped == [n EXCEPT !.global_step = @ + 1]
    IN  IF "bending_energy" \in n.attrs THEN bending_energy_at(stepped) ELSE stepped

(* total_loss set back to 0 for every epoch *)
total_loss_after_per_epoch(r, loss) == (IF r.step = 0 THEN 0 ELSE r.total_loss) + loss

(* line 865: total_loss += loss *)
total_loss_after(r, loss) == r.total_loss + loss

(* lines 855-865: sess.run((self.train_op, self.net.cost)) *)
TrainStep ==
    /\ pc = "optimize"
    /\ trainer.train_op
    /\ IF Fed(data.atlases_weight)
       THEN /\ net' = train_op(net)
            /\ LET loss == env.measured_loss[run.epoch]
               IN  run' = [run EXCEPT !.train_steps = @ + 1,
                                      !.total_loss = total_loss_after(run, loss),
                                      !.losses = Append(@, loss),
                                      !.params = "trained",
                                      !.events = event(run, "train")]
            /\ pc' = "display"
            /\ err' = err
       ELSE /\ net' = net
            /\ run' = run
            /\ pc' = "failed"
            /\ err' = <<"KeyError", 862>>
    /\ UNCHANGED <<env, cost_kwargs, net_kwargs, train_kwargs, data, netOut, trainer>>

(* lines 868-874: output_minibatch_stats at every step (display_step=1),    *)
(* recorded under the key epoch * training_iters + step + 1                  *)
Display ==
    /\ pc = "display"
    /\ IF ~(MetricAttrs \subseteq net.attrs)
       THEN /\ run' = run
            /\ pc' = "failed"
            /\ err' = <<"AttributeError", 988>>
       ELSE IF ~Fed(data.atlases_weight)
       THEN /\ run' = run
            /\ pc' = "failed"
            /\ err' = <<"KeyError", 995>>
       ELSE /\ run' = [run EXCEPT
                          !.step = @ + 1,
                          !.train_metrics =
                              Append(@, run.epoch * train_kwargs.training_iters
                                            + run.step + 1)]
            /\ pc' = "batch"
            /\ err' = err
    /\ UNCHANGED <<env, cost_kwargs, net_kwargs, train_kwargs, data, netOut, net, trainer>>

(* lines 876-887: output_epoch_stats(epoch, total_loss, (epoch + 1) *       *)
(* training_iters * self_iters, lr), the epoch's model saved under the      *)
(* default checkpoint state of save_model_path; after the last epoch the    *)
(* final checkpoint is saved and train() returns                            *)
EpochEnd ==
    /\ pc = "batch"
    /\ run.step = train_kwargs.training_iters
    /\ LET report == <<run.total_loss, (run.epoch + 1) * train_kwargs.training_iters>>
           ended == [run EXCEPT !.epoch = @ + 1,
                                !.reports = Append(@, report)]
       IN  IF run.epoch + 1 < train_kwargs.epochs
           THEN /\ run' = [ended EXCEPT !.step = 0,
                                        !.checkpoints = @ \cup {"epoch_model.ckpt"}]
                /\ pc' = "batch"
           ELSE /\ run' = [ended EXCEPT !.checkpoints = @ \cup {"epoch_model.ckpt",
                                                                "checkpoint.ckpt"},
                                        !.returned = returned_of(ended)]
                /\ pc' = "returned"
    /\ env' = [env EXCEPT !.save_ckpt = "model"]
    /\ UNCHANGED <<cost_kwargs, net_kwargs, train_kwargs, data, netOut, net, trainer, err>>

(* train() called again on the same net, by the same Trainer or by a new    *)
(* one, after a call that got past _initialize                               *)
TrainAgain ==
    /\ pc \in {"returned", "failed"}
    /\ trainer.train_op
    /\ run.calls < train_kwargs.calls
    /\ \E fresh \in BOOLEAN : pc' = IF fresh THEN "built" ELSE "trainer"
    /\ run' = [NoRun EXCEPT !.calls = run.calls + 1]
    /\ err' = <<"none", 0>>
    /\ UNCHANGED <<env, cost_kwargs, net_kwargs, train_kwargs, data, netOut, net, trainer>>

-----------------------------------------------------------------------------
(* Feeds and configurations *)

FieldFamily ==
    {[x \in Pix |-> v] : v \in {0 - Unit, 0, Unit}}
        \cup {[x \in Pix |-> (Width - 1 - x) * (Unit \div 2)]}

StepLabel == [x \in Pix |-> OneHot(IF x = 0 THEN 0 ELSE 1)]

LabelFamily == {[x \in Pix |-> OneHot(k)] : k \in Class} \cup {StepLabel}

UnitWeight == [x \in Pix |-> [c \in Class |-> 1]]

UnitWeightStack == [n \in Atlas |-> UnitWeight]

WeightStacks ==
    {UnitWeightStack,
     [n \in Atlas |-> [x \in Pix |-> [c \in Class |->
         IF c = 1 /\ (x = 0 \/ n > 0) THEN 2 ELSE 1]]]}

ImageStack == [n \in Atlas |-> [x \in Pix |-> [c \in {0} |-> 10 * (n + 1) + x]]]

RampStack == [n \in Atlas |-> [x \in Pix |-> x * (Unit \div 2)]]

(* a different field for every atlas *)
ShiftStack == [n \in Atlas |-> [x \in Pix |-> ((n % 3) - 1) * Unit + x]]

StepLabelStack == [n \in Atlas |-> StepLabel]

(* a different label map for every atlas *)
MixedLabelStack ==
    [n \in Atlas |-> IF n = 0 THEN StepLabel ELSE [x \in Pix |-> OneHot(n % NClass)]]

Feeds(targets, label_stacks, weights, phases) ==
    {[target_label |-> tl, target_weight |-> UnitWeight, atlases_label |-> al,
      atlases_weight |-> aw, atlases_image |-> ImageStack,
      train_phase |-> ph[1], aug_shift |-> ph[2]] :
        tl \in targets, al \in label_stacks, aw \in weights, ph \in phases}

Regularizers ==
    {Absent} \cup {Some(<<f, s>>) : f \in RegularizerFirst, s \in RegularizerSecond}

Coefficients == {Absent, Some(<<0, 1>>), Some(<<1, 1>>), Some(<<2, 3>>)}

CostKwargs(names, regs, coefs, rates, sigmas, priors) ==
    [cost_name : names, regularizer : regs, regularization_coefficient : coefs,
     bending_energy_increment_rate : rates, prob_sigma : sigmas,
     prob_eps : {Absent}, prior_prob : priors]

NetKwargs(methods, diffeos, steps) ==
    [method : methods, diffeomorphism : diffeos, int_steps : steps]

TrainKwargs(optimizers, pretrain, epochs, iters) ==
    [optimizer_name : optimizers, pretrain_epochs : pretrain, epochs : epochs,
     training_iters : iters, restore : {FALSE}, restore_model_path : {"None"},
     calls : {1}]

(* the same arguments, train() called up to `calls` times on the net *)
WithCalls(tks, calls) == {[tk EXCEPT !.calls = c] : tk \in tks, c \in calls}

(* the same arguments with restore and restore_model_path given *)
WithRestore(tks, paths) ==
    {[tk EXCEPT !.restore = TRUE, !.restore_model_path = p] : tk \in tks, p \in paths}

Epochs == 0 .. (MaxEpochs - 1)

(* the world outside the process: the two directories, the checkpoint state *)
(* found in restore_model_path and in save_model_path, and the Dice and the *)
(* loss the session measures in every epoch                                  *)
SteadyEnv ==
    [prediction_path |-> "old", save_model_path |-> "old", restore_ckpt |-> "none",
     save_ckpt |-> "none", measured_dice |-> [e \in Epochs |-> 1],
     measured_loss |-> [e \in Epochs |-> 1]]

L2Bending == Some(<<"l2", "bending_energy">>)

(* every loss name, network method and diffeomorphism setting *)
InitLossNames ==
    /\ cost_kwargs \in CostKwargs(CostNames, {Absent, L2Bending},
                                  {Absent, Some(<<1, 1>>)}, {Some(1)}, {Absent},
                                  {Absent})
    /\ net_kwargs \in NetKwargs(Methods, {Absent, Some(FALSE), Some(TRUE)}, {Some(1)})
    /\ train_kwargs \in TrainKwargs({"adam"}, {0}, {0}, {1})

(* every regularizer configuration *)
InitRegularizers ==
    /\ cost_kwargs \in CostKwargs({"dice", "LNCC", "Dice_loss"}, Regularizers,
                                  Coefficients, {Absent, Some(1)}, {Absent},
                                  {Absent, Some("prior")})
    /\ net_kwargs \in NetKwargs({"ddf_label", "ddf_score"}, {Some(FALSE)}, {Absent})
    /\ train_kwargs \in TrainKwargs({"adam", "adagrad"}, {0}, 0 .. 1, {1})

(* every optimizer name *)
InitOptimizers ==
    /\ cost_kwargs \in CostKwargs({"L2_norm", "mvmm_net_mask"},
                                  {L2Bending, Some(<<"None", "None">>)},
                                  {Absent, Some(<<1, 1>>)}, {Absent, Some(1)}, {Absent},
                                  {Absent})
    /\ net_kwargs \in NetKwargs({"ddf_label"}, {Some(FALSE)}, {Absent})
    /\ train_kwargs \in TrainKwargs(OptimizerNames, 0 .. 1, 0 .. 1, 1 .. MaxIters)

(* the configurations, on one feed *)
InitConfig ==
    /\ InitLossNames \/ InitRegularizers \/ InitOptimizers
    /\ data \in Feeds({StepLabel}, {StepLabelStack}, {UnitWeightStack},
                      {<<FALSE, 0>>, <<TRUE, Unit>>})
    /\ netOut = RampStack

(* the same configurations with prob_eps given *)
WithEps(cks, epss) == {[ck EXCEPT !.prob_eps = e] : ck \in cks, e \in epss}

(* an explicit floor of 0.2 *)
LargeEps == One \div 5

(* the feeds and network outputs, on configurations that build: every label *)
(* stack under a few fields, and every stack of fields under one label      *)
(* stack and every diffeomorphism setting                                   *)
InitFlow ==
    /\ train_kwargs \in TrainKwargs({"adam"}, {1}, {0}, {1})
    /\ \/ /\ cost_kwargs \in
                 WithEps(CostKwargs({"dice", "multi_scale_dice"}, {L2Bending},
                                    {Some(<<1, 1>>)}, {Some(1)}, {Absent}, {Absent}),
                         {Absent, Some(LargeEps)})
          /\ net_kwargs \in NetKwargs({"ddf_label"}, {Some(FALSE)}, {Absent})
          /\ data \in Feeds({StepLabel}, [Atlas -> LabelFamily], WeightStacks,
                             {<<FALSE, 0>>})
          /\ netOut \in {ZeroField, ShiftStack, RampStack}
       \/ /\ cost_kwargs \in CostKwargs({"dice", "multi_scale_dice", "LNCC"},
                                         {L2Bending}, {Some(<<1, 1>>)}, {Some(1)},
                                         {Absent}, {Absent})
          /\ net_kwargs \in
                 NetKwargs({"ddf_label"}, {Some(FALSE)}, {Absent})
                     \cup NetKwargs({"ddf_label"}, {Some(TRUE)},
                                    {Absent} \cup {Some(k) : k \in 0 .. MaxIntSteps})
          /\ data \in Feeds({StepLabel}, {MixedLabelStack}, WeightStacks,
                             {<<FALSE, 0>>})
          /\ netOut \in [Atlas -> FieldFamily]

(* a field that folds at pixel 0 and nowhere else *)
FoldStack == [n \in Atlas |-> [x \in Pix |-> IF x = 0 THEN Unit ELSE 0]]

(* one configuration that builds and trains, on feeds with and without the  *)
(* atlas weight maps                                                         *)
InitFeeds ==
    /\ cost_kwargs \in CostKwargs({"dice"}, {L2Bending}, {Some(<<1, 1>>)},
                                  {Some(1), Some(2)}, {Absent}, {Absent})
    /\ net_kwargs \in NetKwargs({"ddf_label"}, {Some(FALSE)}, {Absent})
    /\ train_kwargs \in WithCalls(TrainKwargs({"adam"}, {0}, 0 .. MaxEpochs,
                                               1 .. MaxIters),
                                   1 .. MaxCalls)
    /\ data \in Feeds({StepLabel}, {StepLabelStack}, {Absent, UnitWeightStack},
                      {<<FALSE, 0>>})
    /\ netOut \in {RampStack, FoldStack}

CheckpointStates == {"none", "empty", "model"}

(* a directory that does not exist holds no checkpoint state *)
ConsistentEnv(v) == (v.save_model_path = "absent") => (v.save_ckpt = "none")

(* one configuration that builds, under every pre-training length, restore  *)
(* setting and state of the two model directories                           *)
InitRestore ==
    /\ cost_kwargs \in CostKwargs({"dice"}, {L2Bending}, {Some(<<1, 1>>)}, {Some(1)},
                                  {Absent}, {Absent})
    /\ net_kwargs \in NetKwargs({"ddf_label"}, {Some(FALSE)}, {Absent})
    /\ data \in Feeds({StepLabel}, {StepLabelStack}, {UnitWeightStack}, {<<FALSE, 0>>})
    /\ netOut = RampStack
    /\ LET tks == TrainKwargs({"adam"}, 0 .. MaxPretrainEpochs, 0 .. 1, 1 .. MaxIters)
           envs == {[SteadyEnv EXCEPT !.prediction_path = d, !.save_model_path = d,
                                       !.restore_ckpt = rc, !.save_ckpt = sc] :
                        d \in {"absent", "old"}, rc \in CheckpointStates,
                        sc \in CheckpointStates}
       IN  \/ /\ train_kwargs \in tks
              /\ env \in {v \in envs : /\ ConsistentEnv(v)
                                        /\ v.restore_ckpt = "none"
                                        /\ v.save_ckpt # "empty"}
           \/ /\ train_kwargs \in WithRestore(tks, {"previous_run"})
              /\ env \in {v \in envs : ConsistentEnv(v)}
           \/ /\ train_kwargs \in WithRestore(tks, {"model.ckpt"})
              /\ env = SteadyEnv

(* one configuration that builds and trains, under every course of the      *)
(* measured Dice and loss                                                    *)
InitMetrics ==
    /\ cost_kwargs \in CostKwargs({"dice"}, {L2Bending}, {Some(<<1, 1>>)}, {Some(1)},
                                  {Absent}, {Absent})
    /\ net_kwargs \in NetKwargs({"ddf_label"}, {Some(FALSE)}, {Absent})
    /\ data \in Feeds({StepLabel}, {StepLabelStack}, {UnitWeightStack}, {<<FALSE, 0>>})
    /\ netOut = RampStack
    /\ train_kwargs \in TrainKwargs({"adam"}, {0}, 1 .. MaxEpochs, 1 .. MaxIters)
    /\ env \in {[SteadyEnv EXCEPT !.measured_dice = d] : d \in [Epochs -> 1 .. 2]}
                \cup {[SteadyEnv EXCEPT !.measured_loss = l] : l \in [Epochs -> 1 .. 2]}

Init ==
    /\ \/ (InitConfig \/ InitFlow \/ InitFeeds) /\ env = SteadyEnv
       \/ InitRestore
       \/ InitMetrics
    /\ net = NoNet
    /\ trainer = NoTrainer
    /\ run = NoRun
    /\ pc = "config"
    /\ err = <<"none", 0>>

Next ==
    \/ Construct
    \/ NewTrainer
    \/ Initialize
    \/ PretrainStep
    \/ PretrainEnd
    \/ PretrainSkip
    \/ RestoreSkip
    \/ Restore
    \/ StartOptimization
    \/ Validate
    \/ ValidateSkip
    \/ TrainStep
    \/ Display
    \/ EpochEnd
    \/ TrainAgain

Spec == Init /\ [][Next]_vars

-----------------------------------------------------------------------------
(* Properties *)

NetBuilt == "cost" \in net.attrs

(* C1: a cost_name outside the supported set ends the construction in an    *)
(* error and no loss exists; the loss of a net that was built is the variant *)
(* its cost_name names, which is a supported one                             *)
C1_UnknownCostNameRaises ==
    /\ (pc # "config" /\ cost_kwargs.cost_name \notin SupportedCosts)
           => /\ pc = "failed"
              /\ err[1] \in {"TypeError", "ValueError", "KeyError", "NotImplementedError"}
              /\ ~NetBuilt
              /\ net.cost = NoCost
    /\ NetBuilt => /\ net.cost.variant.name = cost_kwargs.cost_name
                   /\ net.cost.variant.name \in SupportedCosts

C1_Witness ==
    /\ pc = "failed"
    /\ cost_kwargs.cost_name = "Dice_loss"
    /\ err = <<"NotImplementedError", 324>>

(* C2: an optimizer name outside {momentum, sgd, rmsprop, adam, adam-clr}    *)
(* ends _initialize in an error: no train op and no pre-train op is created *)
(* and no pre-training or optimization step is ever run.                    *)
C2_UnknownOptimizerRaises ==
    trainer.optimizer_name \notin SupportedOptimizers \cup {"None"} =>
        /\ ~trainer.train_op
        /\ ~trainer.pretrain_op
        /\ run.train_steps = 0
        /\ run.pretrain_step = 0
        /\ net.global_step = 0
        /\ pc \in {"trainer", "failed"}
        /\ pc = "failed" => err[1] \in {"KeyError", "TypeError", "NotImplementedError",
                                        "ValueError"}

C2_Witness ==
    /\ pc = "failed"
    /\ trainer.optimizer_name = "adagrad"
    /\ err = <<"ValueError", 591>>
    /\ train_kwargs.epochs > 0

(* the regularizer configurations the claims call requested *)
requested(regularizer_type) ==
    regularizer_type[1] \in {"l1", "l2"} \/ regularizer_type[2] = "bending_energy"

(* C3: with an unrecognised regularizer name the construction or the graph  *)
(* build raises, so that no trainer gets through _initialize with it; stated *)
(* for a second element that is a name other than 'bending_energy', next to  *)
(* a first element the network knows                                         *)
C3_UnknownRegularizerRaises ==
    (/\ Has(cost_kwargs.regularizer)
     /\ cost_kwargs.regularizer[1][1] \in {"l1", "l2"}
     /\ cost_kwargs.regularizer[1][2] \notin {"bending_energy", "None"})
        => pc # "initialized"

(* C4: when a regularizer is requested and regularization_coefficient is     *)
(* missing, the build ends in an error: with l1/l2 no net is built, with the *)
(* bending energy no trainer gets through _initialize                        *)
C4_MissingCoefficientRaises ==
    (/\ Has(cost_kwargs.regularizer)
     /\ requested(cost_kwargs.regularizer[1])
     /\ ~Has(cost_kwargs.regularization_coefficient))
        => /\ pc # "initialized"
           /\ ~trainer.train_op
           /\ (pc = "failed") => (err[1] # "none")
           /\ (cost_kwargs.regularizer[1][1] \in {"l1", "l2"}) => ~NetBuilt
           /\ net.cost.reg = 0 /\ net.cost.bending = 0

C4_Witness ==
    /\ pc = "failed"
    /\ err = <<"TypeError", 639>>
    /\ cost_kwargs.regularizer = Some(<<"None", "bending_energy">>)
    /\ ~Has(cost_kwargs.regularization_coefficient)

Diffeomorphic == Get(net_kwargs.diffeomorphism, FALSE)

(* what the consumers of self.ddf compute from a displacement field d *)
consumers_use(d) ==
    /\ net.ddf = d
    /\ net.pretrain_cost = mean_square(d)
    /\ Fed(data.atlases_weight) =>
           net.warped_atlases_weight = _get_warped_atlases(data.atlases_weight, d, "linear")
    /\ \A i \in 1 .. Len(net.prob_sigma) : \A n \in Atlas :
           net.warped_atlases_prob[i][n] =
               SpatialTransformer("linear",
                   get_prob_from_label(data.atlases_label[n], net.prob_sigma[i],
                                       net.prob_eps), d[n])
    /\ (net.cost_name = "L2_norm") => (net.cost.variant.value = mean_square(d))
    /\ ("bending_energy" \in net.attrs) =>
           net.bending_energy = bending_energy_of(d, net.bending_energy_weight)

(* C5: with diffeomorphism set and int_steps = 0 the displacement field that *)
(* warping, the losses and the regularization use is the network's output    *)
C5_ZeroStepsIsIdentity ==
    (NetBuilt /\ Diffeomorphic /\ net.int_steps = 0)
        => (net.vec = netOut /\ consumers_use(netOut))

C5_Witness ==
    /\ NetBuilt /\ Diffeomorphic /\ net.int_steps = 0
    /\ \E n \in Atlas : \E x \in Pix : netOut[n][x] # 0
    /\ \E n \in Atlas : \E x \in Pix : netOut[n][x] # netOut[n][0]

(* C6: the integrator runs exactly when the diffeomorphism option is set;    *)
(* without it every consumer of self.ddf reads the network's output          *)
C6_IntegratorOnlyIfDiffeomorphic ==
    NetBuilt => /\ ("vec" \in net.attrs) <=> Diffeomorphic
                /\ ("int_steps" \in net.attrs) <=> Diffeomorphic
                /\ ~Diffeomorphic => consumers_use(netOut)

C6_Witness ==
    /\ NetBuilt /\ ~Diffeomorphic /\ "bending_energy" \in net.attrs
    /\ \E n \in Atlas : \E x \in Pix : netOut[n][x] # netOut[n][0]

(* k compositions d <- d + resample(d, d) of the field d *)
RECURSIVE squared(_, _)
squared(d, k) ==
    IF k = 0 THEN d
    ELSE squared(tensor([x \in Pix |-> d[x] + interp_linear(d, x * Unit + d[x])]),
                 k - 1)

resample_channels(src, d) ==
    [x \in Pix |-> [c \in DOMAIN src[0] |->
        interp_linear([y \in Pix |-> src[y][c]], x * Unit + d[x])]]

(* C9: slot n of every warped output is atlas n's input resampled by field   *)
(* n: the probabilities at every scale after the probability mapping, the    *)
(* weights and the images as they are, once                                  *)
C9_AtlasFieldPairing ==
    NetBuilt =>
        \A n \in Atlas :
            /\ \A i \in 1 .. Len(net.prob_sigma) :
                   net.warped_atlases_prob[i][n] =
                       resample_channels(
                           get_prob_from_label(data.atlases_label[n], net.prob_sigma[i],
                                               net.prob_eps), net.ddf[n])
            /\ Fed(data.atlases_weight) =>
                   net.warped_atlases_weight[n] =
                       resample_channels(data.atlases_weight[n], net.ddf[n])
            /\ (net.cost_name = "LNCC") =>
                   net.warped_atlases_image[n] =
                       resample_channels(data.atlases_image[n], net.ddf[n])
            /\ (net.cost_name # "LNCC") => net.warped_atlases_image = <<>>

C9_Witness ==
    /\ NetBuilt /\ net.cost_name = "LNCC"
    /\ net.ddf[0] # net.ddf[1]
    /\ data.atlases_label[0] # data.atlases_label[1]
    /\ data.atlases_weight[0] # data.atlases_weight[1]
    /\ net.warped_atlases_weight[0] # data.atlases_weight[0]
    /\ net.warped_atlases_image[1] # data.atlases_image[1]

AtlasOrders(S) == {f \in [S -> S] : \A a, b \in S : (f[a] = f[b]) => (a = b)}

permuted(stack, f) == [n \in Atlas |-> stack[f[n]]]

(* C10: the joint probability does not depend on the order of the atlases:   *)
(* fusing the warped stack in any order, and warping and fusing the atlases  *)
(* fed in any order with their fields, give the same map                     *)
C10_FusionIgnoresAtlasOrder ==
    NetBuilt =>
        \A f \in AtlasOrders(Atlas) :
            /\ \A i \in 1 .. Len(net.prob_sigma) :
                   get_joint_prob(permuted(net.warped_atlases_prob[i], f))
                       = net.atlases_joint_prob[i]
            /\ atlases_joint_prob_of(
                   _get_warped_atlases_prob(permuted(data.atlases_label, f),
                                            permuted(net.ddf, f), "linear",
                                            net.prob_sigma, net.prob_eps))
                   = net.atlases_joint_prob

C10_Witness ==
    /\ NetBuilt
    /\ net.warped_atlases_prob[1][0] # net.warped_atlases_prob[1][1]
    /\ net.ddf[0] # net.ddf[1]
    /\ \E x \in Pix : net.atlases_joint_prob[1][x][0] # net.atlases_joint_prob[1][x][1]

(* the class products that get_joint_prob renormalises, at scale i *)
joint_products(i) ==
    [x \in Pix |-> [c \in Class |->
        ProdRange(LAMBDA n : net.warped_atlases_prob[i][n][x][c], 0, NAtlas - 1)]]

class_sum(p) == SumRange(LAMBDA c : p[c], 0, NClass - 1)

mapped_probs ==
    {net.target_prob}
        \cup {net.warped_atlases_prob[i][n] :
                  i \in 1 .. Len(net.prob_sigma),
                  n \in {m \in Atlas : net.ddf[m] = ZeroField[m]}}

flat_around(n, x, sigma) ==
    \A y \in Pix :
        (y >= x - sigma /\ y <= x + sigma) => data.atlases_label[n][y] = data.atlases_label[n][x]

atlases_voting(x, k) == {n \in Atlas : data.atlases_label[n][x] = OneHot(k)}

C14_SegmentsWithoutWeights ==
    (NetBuilt /\ ~Fed(data.atlases_weight)) =>
        /\ net.segmenter = get_segmentation(net.atlases_joint_prob[1])
        /\ err[1] # "KeyError"

(* C15: the segmentation is the arg-max of the fusion of the finest-scale   *)
(* warped probabilities multiplied elementwise by the warped weight maps,    *)
(* and it is the same when the coarser scales are not computed at all        *)
C15_SegmenterUsesFinestScale ==
    (NetBuilt /\ Fed(data.atlases_weight)) =>
        /\ net.segmenter =
               get_segmentation(get_joint_prob(
                   [n \in Atlas |-> [x \in Pix |-> [c \in Class |->
                       net.warped_atlases_prob[1][n][x][c]
                           * net.warped_atlases_weight[n][x][c]]]]))
        /\ net.segmenter =
               segmenter_of(_get_warped_atlases_prob(data.atlases_label, net.ddf, "linear",
                                                     <<net.prob_sigma[1]>>, net.prob_eps),
                            net.warped_atlases_weight)

(* several scales, weights that change the fused map, and a segmentation    *)
(* that the coarsest scale would not give                                    *)
C15_Witness ==
    /\ NetBuilt /\ Fed(data.atlases_weight)
    /\ Len(net.prob_sigma) = 4
    /\ data.atlases_weight # UnitWeightStack
    /\ net.atlases_joint_prob[1] #
           get_joint_prob(reweighted(net.warped_atlases_prob, net.warped_atlases_weight, 1))
    /\ net.segmenter #
           get_segmentation(get_joint_prob(
               reweighted(net.warped_atlases_prob, net.warped_atlases_weight, 4)))

(* C16: the network's regularization_loss enters the loss with the weight   *)
(* regularization_coefficient[0] exactly when the first regularizer name is *)
(* l1 or l2 and that coefficient is not zero, and not at all otherwise       *)
C16_RegularizationTerm ==
    NetBuilt =>
        LET kind == cost_kwargs.regularizer[1][1]
            coef == cost_kwargs.regularization_coefficient
        IN  /\ (kind \in {"l1", "l2"} /\ coef[1][1] # 0) => net.cost.reg = coef[1][1]
            /\ (kind \notin {"l1", "l2"}) => net.cost.reg = 0
            /\ (kind \in {"l1", "l2"} /\ coef[1][1] = 0) => net.cost.reg = 0
            /\ net.cost.variant.name = cost_kwargs.cost_name
            /\ (pc \in {"built", "trainer"} /\ run.calls = 1) => net.cost.bending = 0

C16_Witness ==
    /\ NetBuilt
    /\ cost_kwargs.regularizer[1][1] = "l1"
    /\ cost_kwargs.regularization_coefficient = Some(<<2, 3>>)
    /\ net.cost.reg = 2

(* C17: in ddf_score mode scores_loss is the mean absolute difference of the *)
(* predicted and the ground-truth scores and enters the loss with weight 1;  *)
(* in every other mode scores_loss and scores_gt are the constant 0 and no   *)
(* score term enters the loss; both attributes exist on every built net      *)
C17_ScoreCoupling ==
    NetBuilt =>
        /\ {"scores_loss", "scores_gt"} \subseteq net.attrs
        /\ (net_kwargs.method = "ddf_score") =>
               /\ net.cost.scores = 1
               /\ net.scores_loss = "mean(abs(scores - scores_gt))"
               /\ net.scores_gt = "jaccard + cross_entropy ** 0.3"
               /\ "scores" \in net.attrs
        /\ (net_kwargs.method # "ddf_score") =>
               /\ net.cost.scores = 0
               /\ net.scores_loss = "constant 0"
               /\ net.scores_gt = "constant 0"

C17_Witness ==
    /\ NetBuilt
    /\ net_kwargs.method = "ddf_score"
    /\ net.cost.scores = 1
    /\ net.cost.variant.name = "dice"

RECURSIVE power(_, _)
power(b, e) == IF e = 0 THEN 1 ELSE b * power(b, e - 1)

BendingScheduled == "bending_energy" \in net.attrs

(* C18 as claimed: at every optimizer step t the weight of the bending      *)
(* energy is base * rate^(t / decay_steps) with the exact quotient as        *)
(* exponent, that is weight^decay_steps = base^decay_steps * rate^t          *)
C18_WeightFollowsExactQuotient ==
    BendingScheduled =>
        power(net.bending_energy_weight, net.bending_schedule.decay_steps)
            = power(net.bending_schedule.base, net.bending_schedule.decay_steps)
                  * power(net.bending_schedule.rate, net.global_step)

(* C18 amended: the weight is base * rate^floor(t / decay_steps), with      *)
(* base = regularization_coefficient[1], rate = bending_energy_increment_rate *)
(* and decay_steps = training_iters * self_iters: it moves once per epoch     *)
C18_WeightFollowsStaircase ==
    BendingScheduled =>
        /\ net.bending_schedule.base = net.regularization_coefficient[1][2]
        /\ net.bending_schedule.decay_steps = train_kwargs.training_iters
        /\ net.bending_energy_weight
               = net.bending_schedule.base
                     * power(net.bending_schedule.rate,
                             net.global_step \div net.bending_schedule.decay_steps)
        /\ net.bending_energy = bending_energy_of(net.ddf, net.bending_energy_weight)

(* a step inside the first epoch of a growing schedule: the weight is still *)
(* the base weight                                                           *)
C18_Witness ==
    /\ BendingScheduled
    /\ net.bending_schedule.rate = 2
    /\ net.bending_schedule.decay_steps = 2
    /\ net.global_step = 1
    /\ net.bending_energy_weight = net.bending_schedule.base

(* the pixels, over all atlases, with a non-positive Jacobian determinant *)
non_positive_jacobians(ddf) ==
    {nx \in Atlas \X Pix : compute_jacobian_determinant(ddf[nx[1]])[nx[2]] <= 0}

(* C19: the '# Negative Jacobians' diagnostic is the number of pixels, over *)
(* all atlases, with a non-positive Jacobian determinant                     *)
C19_CountsNonPositivePixels ==
    BendingScheduled =>
        net.num_neg_jacob = Cardinality(non_positive_jacobians(net.ddf))

(* C20: when the model and the trainer build without error, validation and  *)
(* display never fail because a metric is undefined on the net               *)
C20_MetricsAlwaysDefined ==
    /\ (pc \in {"initialized", "pretrain", "restore", "optimize", "batch", "display",
                "returned"}) => (MetricAttrs \subseteq net.attrs)
    /\ err[1] # "AttributeError"

(* C23: the augmented data are the target label and weight moved by the     *)
(* affine map in the training phase and the fed data themselves in the      *)
(* validation/test phase; the atlas images, labels and weights are the fed  *)
(* ones in both phases                                                       *)
C23_AugmentationOnlyInTraining ==
    NetBuilt =>
        /\ data.train_phase =>
               /\ net.augmented_data.target_label
                      = random_affine_augment(data.target_label, "nearest", data.aug_shift)
               /\ net.augmented_data.target_weight
                      = random_affine_augment(data.target_weight, "linear", data.aug_shift)
        /\ ~data.train_phase => net.augmented_data = data
        /\ net.augmented_data.atlases_image = data.atlases_image
        /\ net.augmented_data.atlases_label = data.atlases_label
        /\ net.augmented_data.atlases_weight = data.atlases_weight

(* a training-phase feed whose target label the augmentation has moved *)
C23_Witness ==
    /\ NetBuilt
    /\ data.train_phase
    /\ net.augmented_data.target_label # data.target_label
    /\ net.augmented_data.atlases_label = data.atlases_label

C22_PretrainsWholeEpochs ==
    (train_kwargs.pretrain_epochs > 0 /\ "pretrain_model.ckpt" \in run.checkpoints)
        => run.pretrain_step = train_kwargs.pretrain_epochs * train_kwargs.training_iters

(* where the parameters of this call of train() were restored from *)
restored_from ==
    {run.events[i][1] : i \in 1 .. Len(run.events)}
        \cap {"restore_model_path", "save_model_path"}

(* C24: with restore set and a restore_model_path without '.ckpt', train()  *)
(* restores from the checkpoint state of restore_model_path if there is     *)
(* one, otherwise from that of save_model_path, and with neither it fails   *)
(* with a ValueError before any main optimization step                      *)
C24_RestoreFallbackChain ==
    (train_kwargs.restore /\ train_kwargs.restore_model_path = "previous_run") =>
        /\ (pc = "restored") =>
               /\ usable(env.restore_ckpt) => restored_from = {"restore_model_path"}
               /\ (~usable(env.restore_ckpt) /\ usable(env.save_ckpt))
                      => restored_from = {"save_model_path"}
               /\ usable(env.restore_ckpt) \/ usable(env.save_ckpt)
        /\ (pc = "failed" /\ err[2] = 807) =>
               /\ err[1] = "ValueError"
               /\ ~usable(env.restore_ckpt) /\ ~usable(env.save_ckpt)
               /\ run.train_steps = 0

(* C25: when train() returns after at least one epoch, best_model.ckpt      *)
(* exists and holds the parameters of a validation point whose Dice is the  *)
(* maximum over the validation points of the run                            *)
C25_BestModelSaved ==
    (pc = "returned" /\ train_kwargs.epochs >= 1) =>
        /\ "best_model.ckpt" \in run.checkpoints
        /\ run.best_dice = Some(max_dice(run.test_metrics))

(* a session of train() is open, or was left by return or by an error of a  *)
(* statement inside it (lines 748-887, store_prediction and                 *)
(* output_minibatch_stats)                                                   *)
InSession ==
    \/ pc \in {"initialized", "pretrain", "restore", "restored", "batch", "optimize",
               "display", "returned"}
    \/ pc = "failed" /\ err[2] >= 748

(* C26: global_step is 0 when the session starts and counts the runs of the *)
(* main train_op and nothing else: pre-training, validation and display     *)
(* leave it alone, and after e completed epochs it is e * training_iters,   *)
(* the number the epoch checkpoint is named with                             *)
C26_GlobalStepCountsTrainSteps ==
    InSession =>
        /\ net.global_step = run.train_steps
        /\ (pc = "batch") =>
               net.global_step = run.epoch * train_kwargs.training_iters + run.step
        /\ (pc \in {"initialized", "pretrain", "restore", "restored"}) => net.global_step = 0
        /\ (run.reports # <<>> /\ (pc = "returned" \/ (pc = "batch" /\ run.step = 0)))
               => run.reports[Len(run.reports)][2] = net.global_step

(* a run with pre-training steps and a validation, returned after two main  *)
(* steps                                                                     *)
C26_Witness ==
    /\ pc = "returned"
    /\ run.pretrain_step > 0
    /\ run.test_metrics # <<>>
    /\ run.train_metrics # <<>>
    /\ net.global_step = 2

PretrainEvents == {"pretrain", "save_pretrain"}

RestoreEvents == {"restore_model_path", "save_model_path"}

MainEvents == {"validate", "train"}

(* the positions of the session runs of the given kinds in this call *)
positions(names) == {i \in 1 .. Len(run.events) : run.events[i][1] \in names}

(* C27: in one call of train() every pre-training step and the save of the  *)
(* pre-trained model come before the restore, and the restore before the    *)
(* first validation or main step; with restore set, the first validation    *)
(* and the first main step start from the restored parameters               *)
C27_PhaseOrder ==
    /\ \A i \in positions(PretrainEvents) :
           \A j \in positions(RestoreEvents \cup MainEvents) : i < j
    /\ \A i \in positions(RestoreEvents) : \A j \in positions(MainEvents) : i < j
    /\ (train_kwargs.pretrain_epochs # 0 /\ positions(RestoreEvents \cup MainEvents) # {})
           => /\ positions({"save_pretrain"}) # {}
              /\ \A i \in positions({"pretrain"}) : \A j \in positions({"save_pretrain"}) :
                     i < j
    /\ (train_kwargs.restore /\ positions(MainEvents) # {})
           => /\ positions(RestoreEvents) # {}
              /\ \A j \in positions(MainEvents) :
                     (\A i \in positions(MainEvents) : j <= i)
                         => run.events[j][2] = "restored"
    /\ (train_kwargs.restore /\ positions({"train"}) # {})
           => \E j \in positions({"train"}) :
                  /\ \A i \in positions({"train"}) : j <= i
                  /\ run.events[j][2] = "restored"

(* pre-training, then a restore, then a main step from the restored         *)
(* parameters                                                                *)
C27_Witness ==
    /\ train_kwargs.restore
    /\ train_kwargs.pretrain_epochs > 0
    /\ positions({"pretrain"}) # {}
    /\ \E j \in positions({"train"}) : run.events[j] = <<"train", "restored">>

(* C28: the bending energy enters the cost of a net at most once, and only  *)
(* when regularizer_type[1] is 'bending_energy'; a further _initialize on   *)
(* the same net stops at the removed increment rate before it adds the term *)
C28_BendingEnergyAddedOnce ==
    /\ net.cost.bending \in {0, 1}
    /\ (net.cost.bending = 1) => wants_bending_energy(net.regularizer_type)
    /\ (NetBuilt /\ wants_bending_energy(net.regularizer_type) /\ run.calls > 1
           /\ pc \notin {"built", "trainer"})
           => (pc = "failed" /\ err = <<"KeyError", 638>>)

(* a second train() on a net that carries the bending energy *)
C28_Witness ==
    /\ run.calls = 2
    /\ pc = "failed"
    /\ err = <<"KeyError", 638>>
    /\ net.cost.bending = 1
    /\ "bending_energy" \in net.attrs

(* C29: train() with epochs == 0 runs no validation and no main step and    *)
(* leaves global_step at 0; when it returns, it returns the default path of *)
(* the best model and empty metric dictionaries, after the pre-training,    *)
(* the restore and the removal and creation of the two directories           *)
C29_ZeroEpochs ==
    (train_kwargs.epochs = 0) =>
        /\ run.train_steps = 0
        /\ positions(MainEvents) = {}
        /\ InSession => net.global_step = 0
        /\ (pc = "returned") =>
               /\ run.returned = Some([save_path |-> "best_model.ckpt",
                                       train_metrics |-> <<>>, test_metrics |-> <<>>])
               /\ (train_kwargs.pretrain_epochs # 0)
                      => /\ run.pretrain_step > 0
                         /\ "pretrain_model.ckpt" \in run.checkpoints
               /\ train_kwargs.restore
                      => (restored_from # {} /\ run.params = "restored")
               /\ env.prediction_path \in {"old", "new"}
               /\ env.save_model_path \in {"old", "new"}
               /\ ~train_kwargs.restore
                      => /\ env.prediction_path = "new"
                         /\ env.save_model_path = "new"
                         /\ env.save_ckpt = "none"

(* a call with epochs == 0 that pre-trained, restored and returned, the     *)
(* model directory created on the way                                        *)
C29_Witness ==
    /\ train_kwargs.epochs = 0
    /\ pc = "returned"
    /\ run.pretrain_step > 0
    /\ run.params = "restored"
    /\ env.save_model_path = "new"
    /\ run.returned # <<>>

(* the sum of the losses of the main steps first .. last of this call *)
loss_sum(first, last) == SumRange(LAMBDA i : run.losses[i], first, last)

(* C30: total_loss is never reset: the figures output_epoch_stats is given  *)
(* at the end of epoch e are the sum of the losses of all main steps of     *)
(* epochs 0..e and (e + 1) * training_iters, the running average over the   *)
(* whole run                                                                 *)
C30_AverageLossIsRunningAverage ==
    /\ run.total_loss = loss_sum(1, Len(run.losses))
    /\ \A k \in 1 .. Len(run.reports) :
           /\ run.reports[k][2] = k * train_kwargs.training_iters
           /\ run.reports[k][1] = loss_sum(1, k * train_kwargs.training_iters)

(* a second epoch whose reported average is not the average of its own      *)
(* steps                                                                     *)
C30_Witness ==
    /\ Len(run.reports) = 2
    /\ LET iters == train_kwargs.training_iters
       IN  run.reports[2][1] * iters # loss_sum(iters + 1, 2 * iters) * run.reports[2][2]

====
